---- MODULE Spec2Model ----
(***************************************************************************)
(* Model of the unstructured-mesh grids of xpublish-wms:                   *)
(*   src/xpublish_wms/grids/triangular.py  (TriangularGrid)                *)
(*   src/xpublish_wms/grids/fvcom.py       (FVCOMGrid)                     *)
(* Arrays are modelled as sequences.  Python indices are 0-based; the      *)
(* operator At0 reads a sequence with a 0-based index.  Coordinates and    *)
(* field values are integers; an interpolated value is an exact fraction   *)
(* <<numerator, denominator>>, and NaN is the fraction <<0, 0>>.           *)
(***************************************************************************)
EXTENDS Integers, Sequences, FiniteSets, TLC

VARIABLES grid, ds, ret, da, calls, ctx, filter_default, project_default, held

vars == <<grid, ds, ret, da, calls, ctx, filter_default, project_default, held>>

(***************************************************************************)
(* Bounds of the model.                                                    *)
(***************************************************************************)
NTime == 2          \* length of the extra (time) dimension of every field
MaxElevs == 2       \* longest list of requested elevations
MaxReq == 2         \* requested elevations range over -MaxReq .. MaxReq
MaxCalls == 2       \* filter_by_bbox calls chained on one field
MaxTurns == 2       \* whole turns a longitude array may drift from [-180, 180]

(***************************************************************************)
(* Values.                                                                 *)
(***************************************************************************)
NaN == <<0, 0>>
FillValue == -999
Val(n) == <<n, 1>>
IsNaN(v) == v[2] = 0

Abs(x) == IF x < 0 THEN -x ELSE x

RECURSIVE GCD(_, _)
GCD(a, b) == IF b = 0 THEN a ELSE GCD(b, a % b)

\* a fraction in lowest terms with a positive denominator
Norm(n, d) ==
  IF d = 0 THEN NaN
  ELSE LET g == GCD(Abs(n), Abs(d))
           s == IF d < 0 THEN -1 ELSE 1
       IN <<(s * n) \div g, (s * d) \div g>>

Range(s) == {s[i] : i \in DOMAIN s}
At0(s, i) == s[i + 1]
InRange0(s, i) == i >= 0 /\ i < Len(s)
SeqMin(s) == CHOOSE x \in Range(s) : \A y \in Range(s) : x <= y
SeqMax(s) == CHOOSE x \in Range(s) : \A y \in Range(s) : x >= y

\* the elements of a finite set of integers in ascending order
RECURSIVE SortedSeq(_)
SortedSeq(S) ==
  IF S = {} THEN <<>>
  ELSE LET m == CHOOSE x \in S : \A y \in S : x <= y
       IN <<m>> \o SortedSeq(S \ {m})

RECURSIVE Flatten(_)
Flatten(rows) == IF rows = <<>> THEN <<>> ELSE Head(rows) \o Flatten(Tail(rows))

(***************************************************************************)
(* Datasets.  lon/lat are the node coordinates, element the (nele, 3)      *)
(* 1-based connectivity of a triangular dataset, nv the (3, nele) 1-based  *)
(* connectivity of an FVCOM dataset, lonc/latc the element-centre          *)
(* coordinates carried by element-resident variables, siglay[l][n] the     *)
(* sigma levels, node_data/nele_data[name][t][i] the raw field values.     *)
(***************************************************************************)
FieldNames == {"temp", "salt"}

Transpose(m) ==
  IF m = <<>> THEN <<>>
  ELSE [j \in 1..Len(m[1]) |-> [i \in 1..Len(m) |-> m[i][j]]]

NodeData(n) ==
  [name \in FieldNames |->
     [t \in 1..NTime |->
        [i \in 1..n |-> IF name = "temp" THEN 10 * i + t ELSE 100 + 7 * i - t]]]

NeleData(n) ==
  [name \in FieldNames |->
     [t \in 1..NTime |->
        [k \in 1..n |-> IF name = "temp"
                         THEN (IF k = 2 /\ t = 1 THEN FillValue ELSE 50 * k + t)
                         ELSE 500 + 3 * k + t]]]

\* sigma levels [level][node]; the two conventions differ in length
Siglay(n) ==
  [l \in 1..3 |-> [i \in 1..n |-> IF i = 1 THEN 3 - 2 * l ELSE -l]]

Siglev(n) ==
  [l \in 1..4 |-> [i \in 1..n |-> IF i = 1 THEN 4 - 2 * l ELSE 1 - l]]

\* 1-based ids of the elements that touch 1-based node n, ascending
Touching(element, n) ==
  SortedSeq({k \in DOMAIN element : \E j \in 1..3 : element[k][j] = n})

\* ntve[node]: number of elements around each node
Ntve(element, n) == [i \in 1..n |-> Len(Touching(element, i))]

\* nbve[slot][node]: 1-based elements around each node, 0 in unused slots
Nbve(element, n) ==
  LET maxdeg == SeqMax(Ntve(element, n))
  IN [s \in 1..maxdeg |->
        [i \in 1..n |-> IF s <= Len(Touching(element, i))
                         THEN Touching(element, i)[s] ELSE 0]]

MkDataset(lon, lat, element, lonc, latc) ==
  [lon |-> lon, lat |-> lat, element |-> element, nv |-> Transpose(element),
   lonc |-> lonc, latc |-> latc,
   ntve |-> Ntve(element, Len(lon)), nbve |-> Nbve(element, Len(lon)),
   siglay |-> Siglay(Len(lon)), siglev |-> Siglev(Len(lon)),
   node_data |-> NodeData(Len(lon)), nele_data |-> NeleData(Len(element))]

\* a dataset that carries no ntve / nbve variables
NoAdjacency(d) == [d EXCEPT !.ntve = <<>>, !.nbve = <<>>]

\* "ntve" in self.ds
HasAdjacency(d) == d.ntve # <<>>

Datasets ==
  { MkDataset(<<0, 2, 1>>, <<0, 0, 2>>, <<<<1, 2, 3>>>>, <<1>>, <<1>>),
    MkDataset(<<0, 2, 1, 3>>, <<0, 0, 2, 2>>, <<<<1, 2, 3>>, <<2, 4, 3>>>>,
              <<1, 2>>, <<1, 1>>),
    MkDataset(<<180, 182, 181, 183>>, <<0, 0, 2, 2>>,
              <<<<1, 2, 3>>, <<2, 4, 3>>>>, <<181, 182>>, <<1, 1>>),
    MkDataset(<<-2, 0, -1, 1, 3>>, <<0, 0, 2, 2, 2>>,
              <<<<1, 2, 3>>, <<2, 4, 3>>, <<2, 5, 4>>>>, <<-1, 0, 1>>, <<1, 1, 1>>),
    NoAdjacency(MkDataset(<<0, 2, 1, 3>>, <<0, 0, 2, 2>>,
                          <<<<1, 2, 3>>, <<2, 4, 3>>>>, <<1, 2>>, <<1, 1>>)),
    NoAdjacency(MkDataset(<<180, 182, 181, 183>>, <<0, 0, 2, 2>>,
                          <<<<1, 2, 3>>, <<2, 4, 3>>>>, <<181, 182>>, <<1, 1>>)) }

Grids == {"triangular", "fvcom"}

(***************************************************************************)
(* Geometry primitives (xpublish_wms.utils).                               *)
(***************************************************************************)
Sign(px, py, ax, ay, bx, by) == (px - bx) * (ay - by) - (ax - bx) * (py - by)

InTriangle(px, py, x, y, t) ==
  LET x1 == At0(x, t[1])  y1 == At0(y, t[1])
      x2 == At0(x, t[2])  y2 == At0(y, t[2])
      x3 == At0(x, t[3])  y3 == At0(y, t[3])
      d1 == Sign(px, py, x1, y1, x2, y2)
      d2 == Sign(px, py, x2, y2, x3, y3)
      d3 == Sign(px, py, x3, y3, x1, y1)
      has_neg == d1 < 0 \/ d2 < 0 \/ d3 < 0
      has_pos == d1 > 0 \/ d2 > 0 \/ d3 > 0
  IN ~(has_neg /\ has_pos)

\* TRUE when indexing the coordinate arrays with the triangle list raises
TrianglesRaise(x, triangles) ==
  \E k \in DOMAIN triangles :
     \/ Len(triangles[k]) # 3
     \/ \E j \in DOMAIN triangles[k] : ~InRange0(x, triangles[k][j])

\* 0-based indices of all triangles that contain the point, ascending;
\* the empty sequence stands for None
lat_lng_find_tri_ind(lng, lat, lng_values, lat_values, triangles) ==
  SortedSeq({k - 1 : k \in {j \in DOMAIN triangles :
                 InTriangle(lng, lat, lng_values, lat_values, triangles[j])}})

\* node triple of the first triangle that contains the point, <<>> for None
lat_lng_find_tri(lng, lat, lng_values, lat_values, triangles) ==
  LET ind == lat_lng_find_tri_ind(lng, lat, lng_values, lat_values, triangles)
  IN IF ind = <<>> THEN <<>> ELSE At0(triangles, ind[1])

\* numerators of the three weights and their common denominator
barycentric_weights(p, p1, p2, p3) ==
  LET det == (p2[2] - p3[2]) * (p1[1] - p3[1]) + (p3[1] - p2[1]) * (p1[2] - p3[2])
      n1 == (p2[2] - p3[2]) * (p[1] - p3[1]) + (p3[1] - p2[1]) * (p[2] - p3[2])
      n2 == (p3[2] - p1[2]) * (p[1] - p3[1]) + (p1[1] - p3[1]) * (p[2] - p3[2])
  IN <<n1, n2, det - n1 - n2, det>>

\* (v1 * w1) + (v2 * w2) + (v3 * w3) for values v, themselves fractions,
\* and weights w
Interpolate(v1, v2, v3, w) ==
  IF IsNaN(v1) \/ IsNaN(v2) \/ IsNaN(v3) \/ w[4] = 0 THEN NaN
  ELSE Norm(v1[1] * w[1] * v2[2] * v3[2]
            + v2[1] * w[2] * v1[2] * v3[2]
            + v3[1] * w[3] * v1[2] * v2[2],
            v1[2] * v2[2] * v3[2] * w[4])

\* Grid.mask: invalid (fill-valued) cells become missing
mask(data) ==
  [name \in DOMAIN data |->
     [t \in DOMAIN data[name] |->
        [i \in DOMAIN data[name][t] |->
           IF data[name][t][i] = FillValue THEN NaN ELSE Val(data[name][t][i])]]]

(***************************************************************************)
(* Render contexts: Python dicts.  A key is <<>> when absent and <<v>> when *)
(* present.  A connectivity array is kept with its shape, since an array   *)
(* of shape (0, nele) still has nele columns.                              *)
(***************************************************************************)
EmptyContext ==
  [masked |-> <<>>, nv |-> <<>>, ntve |-> <<>>, nbve |-> <<>>,
   lng |-> <<>>, lat |-> <<>>, tri_x |-> <<>>, tri_y |-> <<>>]

\* a 2-d integer array: its rows and its number of columns
Array2(rows, ncols) == [rows |-> rows, ncols |-> ncols]

\* nv.T - 1
TransposeMinus1(a) ==
  [j \in 1..a.ncols |-> [i \in 1..Len(a.rows) |-> a.rows[i][j] - 1]]

\* element - 1
Minus1(rows) == [k \in DOMAIN rows |-> [j \in DOMAIN rows[k] |-> rows[k][j] - 1]]

\* matplotlib.tri.Triangulation(x, y, triangles).triangles: the triangle
\* list itself once validated; ValueError for a list that is empty, is not
\* (ntri, 3) or indexes outside the coordinate arrays
Triangulation(x, y, triangles) ==
  IF \/ Len(x) # Len(y)
     \/ triangles = <<>>
     \/ TrianglesRaise(x, triangles)
     \/ \E k \in DOMAIN triangles : \E j \in 1..3 : triangles[k][j] < 0
  THEN [raised |-> TRUE, triangles |-> <<>>]
  ELSE [raised |-> FALSE, triangles |-> triangles]

(***************************************************************************)
(* Subsets handed to sel_lat_lng by the caller.                            *)
(***************************************************************************)
NodeSubset(d) == [dim |-> "node", data |-> d.node_data, lon |-> d.lon, lat |-> d.lat]
NeleSubset(d) == [dim |-> "nele", data |-> d.nele_data, lon |-> d.lonc, lat |-> d.latc]
Subsets(d) == {NodeSubset(d), NeleSubset(d)}

\* subset.isel(<dim> = i): every field at 0-based position i, all times
PointFields(data, names, i) ==
  [name \in names |-> [t \in DOMAIN data[name] |-> At0(data[name][t], i)]]

\* np.full(shape, np.nan) written to every requested field
SetNaNMutant(fields, parameters) ==
  [name \in DOMAIN fields |->
     IF name \in parameters
     THEN [t \in DOMAIN fields[name] |-> IF t = 1 THEN NaN ELSE fields[name][t]]
     ELSE fields[name]]

SetNaN(fields, parameters) ==
  [name \in DOMAIN fields |->
     IF name \in parameters THEN [t \in DOMAIN fields[name] |-> NaN]
     ELSE fields[name]]

\* the result of one sel_lat_lng call.  q records the call: the path taken,
\* the subset's dimension, the query point, the longitude after
\* normalisation (nlng) and the requested parameters.  searched: the
\* triangle search ran; located: <<k>> for the 0-based index k of the
\* triangle it found, <<>> when it found none; read_idx: the 0-based
\* indices used to read vertex coordinates and values
SelQuery(path, dim, lng0, nlng, lat, parameters) ==
  [path |-> path, dim |-> dim, qlng |-> lng0, nlng |-> nlng, qlat |-> lat,
   parameters |-> parameters]

SelRaised(q, searched, located, read_idx) ==
  [op |-> "sel_lat_lng", q |-> q, raised |-> TRUE, searched |-> searched,
   found |-> located # <<>>, located |-> located, read_idx |-> read_idx,
   lon |-> <<>>, lat |-> <<>>, x_axis |-> <<>>, y_axis |-> <<>>,
   fields |-> <<>>]

\* strip_float of the returned coordinate
strip_float(value) == value

SelReturn(q, located, read_idx, rlon, rlat, fields) ==
  [op |-> "sel_lat_lng", q |-> q, raised |-> FALSE, searched |-> TRUE,
   found |-> located # <<>>, located |-> located, read_idx |-> read_idx,
   lon |-> <<rlon>>, lat |-> <<rlat>>,
   x_axis |-> <<strip_float(rlon)>>, y_axis |-> <<strip_float(rlat)>>,
   fields |-> fields]

(***************************************************************************)
(* TriangularGrid                                                          *)
(***************************************************************************)
TriangularGrid_tessellate(d, sub) ==
  Triangulation(sub.lon, sub.lat, Minus1(d.element))

TriangularGrid_sel_lat_lng(d, sub, lng0, lat, parameters) ==
  LET subset == [sub EXCEPT !.data = mask(sub.data)]
      lng_values == d.lon
      lat_values == d.lat
      lng == IF lng0 < 0 /\ SeqMax(lng_values) > 180 THEN lng0 + 360
             ELSE IF lng0 > 180 /\ SeqMin(lng_values) < 0 THEN lng0 - 360
             ELSE lng0
      q == SelQuery("triangular", sub.dim, lng0, lng, lat, parameters)
      tess == TriangularGrid_tessellate(d, subset)
      valid_tri == lat_lng_find_tri_ind(lng, lat, lng_values, lat_values,
                                        tess.triangles)
      ret_fields == PointFields(subset.data, DOMAIN subset.data, 0)
      ret_lon == At0(subset.lon, 0)
      ret_lat == At0(subset.lat, 0)
  IN
  IF tess.raised THEN SelRaised(q, FALSE, <<>>, <<>>)
  ELSE IF valid_tri = <<>>
  THEN SelReturn(q, <<>>, <<>>, ret_lon, ret_lat, SetNaN(ret_fields, parameters))
  ELSE
    LET valid_element == At0(d.element, valid_tri[1])
        w == barycentric_weights(
               <<lng, lat>>,
               <<At0(lng_values, valid_element[1]), At0(lat_values, valid_element[1])>>,
               <<At0(lng_values, valid_element[2]), At0(lat_values, valid_element[2])>>,
               <<At0(lng_values, valid_element[3]), At0(lat_values, valid_element[3])>>)
        new_fields ==
          [name \in DOMAIN ret_fields |->
             IF name \in parameters
             THEN [t \in DOMAIN ret_fields[name] |->
                     Interpolate(At0(subset.data[name][t], valid_element[1]),
                                 At0(subset.data[name][t], valid_element[2]),
                                 At0(subset.data[name][t], valid_element[3]), w)]
             ELSE ret_fields[name]]
    IN IF \E j \in 1..3 : ~InRange0(lng_values, valid_element[j])
       THEN SelRaised(q, TRUE, <<valid_tri[1]>>, valid_element)    \* IndexError
       ELSE SelReturn(q, <<valid_tri[1]>>, valid_element,
                      ret_lon, ret_lat, new_fields)

(***************************************************************************)
(* FVCOMGrid                                                               *)
(***************************************************************************)
\* values[i] for a Python index i: a negative index counts from the end
AtPy(s, i) == IF i < 0 THEN s[Len(s) + i + 1] ELSE s[i + 1]

PyIndexRaises(s, i) == i >= Len(s) \/ i < -Len(s)

\* mask = neighbors[:, :] > 0
SlotMaskMutant(neighbor) == neighbor >= 0

SlotMask(neighbor) == neighbor > 0

\* np.sum(values, where=msk) along the slot axis
RECURSIVE MaskedSum(_, _)
MaskedSum(values, msk) ==
  IF values = <<>> THEN Val(0)
  ELSE LET rest == MaskedSum(Tail(values), Tail(msk))
       IN IF ~Head(msk) THEN rest
          ELSE IF IsNaN(Head(values)) \/ IsNaN(rest) THEN NaN
          ELSE Val(Head(values)[1] + rest[1])

\* sum / elem_count
Divide(v, count) == IF IsNaN(v) THEN NaN ELSE Norm(v[1], count)

\* np.sum(data[neighbors - 1], axis=<slot>, where=mask) / elem_count:
\* neighbors[slot][node] holds 1-based element ids, data one value per element
NodeAverage(data, neighbors, elem_count) ==
  [n \in DOMAIN elem_count |->
     Divide(MaskedSum([sl \in DOMAIN neighbors |-> AtPy(data, neighbors[sl][n] - 1)],
                      [sl \in DOMAIN neighbors |-> SlotMask(neighbors[sl][n])]),
            elem_count[n])]

NodeAverageRaises(data, neighbors) ==
  \E sl \in DOMAIN neighbors : \E n \in DOMAIN neighbors[sl] :
     PyIndexRaises(data, neighbors[sl][n] - 1)

\* the triangle list and whether building it raised
FVCOMGrid_tessellate(d, sub, render_context) ==
  LET nv == IF render_context.nv # <<>> THEN render_context.nv[1]
            ELSE Array2(d.nv, Len(d.nv[1]))
  IN IF sub.dim = "nele"
     THEN [raised |-> FALSE, triangles |-> TransposeMinus1(nv)]
     ELSE Triangulation(sub.lon, sub.lat, TransposeMinus1(nv))

FVCOMGrid_sel_lat_lng_node(d, sub, lng0, lat, parameters) ==
  LET \* node-resident variables are copied, element-resident ones are
      \* rebuilt from the elements around each node
      temp_arrays ==
        [name \in parameters |->
           IF sub.dim # "nele" THEN sub.data[name]
           ELSE [t \in DOMAIN sub.data[name] |->
                   NodeAverage(sub.data[name][t], d.nbve, d.ntve)]]
      \* the new dataset holds the requested variables and the dataset's
      \* own node coordinates
      subset == [sub EXCEPT !.lon = d.lon, !.lat = d.lat, !.data = temp_arrays]
      ret_fields == PointFields(subset.data, parameters, 0)
      lng_values == subset.lon
      lat_values == subset.lat
      lng == IF lng0 < 0 /\ SeqMin(lng_values) > 0 THEN lng0 + 360
             ELSE IF lng0 > 180 /\ SeqMin(lng_values) < 0 THEN lng0 - 360
             ELSE lng0
      q == SelQuery("node", sub.dim, lng0, lng, lat, parameters)
      tess == FVCOMGrid_tessellate(d, subset, EmptyContext)
      valid_tri == lat_lng_find_tri(lng, lat, lng_values, lat_values,
                                    tess.triangles)
      ind == lat_lng_find_tri_ind(lng, lat, lng_values, lat_values,
                                  tess.triangles)
  IN
  IF sub.dim = "nele" /\ parameters # {} /\ ~HasAdjacency(d)
  THEN SelRaised([q EXCEPT !.nlng = lng0], FALSE, <<>>, <<>>)  \* self.ds.ntve
  ELSE IF tess.raised THEN SelRaised(q, FALSE, <<>>, <<>>)
  ELSE IF valid_tri = <<>>
  THEN SelReturn(q, <<>>, <<>>, lng0, lat, SetNaN(ret_fields, parameters))
  ELSE
    LET w == barycentric_weights(
               <<lng, lat>>,
               <<At0(lng_values, valid_tri[1]), At0(lat_values, valid_tri[1])>>,
               <<At0(lng_values, valid_tri[2]), At0(lat_values, valid_tri[2])>>,
               <<At0(lng_values, valid_tri[3]), At0(lat_values, valid_tri[3])>>)
        new_fields ==
          [name \in parameters |->
             [t \in DOMAIN ret_fields[name] |->
                Interpolate(At0(subset.data[name][t], valid_tri[1]),
                            At0(subset.data[name][t], valid_tri[2]),
                            At0(subset.data[name][t], valid_tri[3]), w)]]
    IN SelReturn(q, <<ind[1]>>, valid_tri, lng0, lat, new_fields)

\* the element whose values are returned: subset.isel(nele=valid_tri[0])
SelectedElementMutant(valid_tri) == 0

SelectedElement(valid_tri) == valid_tri[1]

FVCOMGrid_sel_lat_lng_nele(d, subset, lng0, lat, parameters) ==
  LET lng_values == d.lon
      lat_values == d.lat
      lng == IF lng0 < 0 /\ SeqMax(lng_values) > 180 THEN lng0 + 360
             ELSE IF lng0 > 180 /\ SeqMin(lng_values) < 0 THEN lng0 - 360
             ELSE lng0
      q == SelQuery("nele", subset.dim, lng0, lng, lat, parameters)
      tess == FVCOMGrid_tessellate(d, subset, EmptyContext)
      names == DOMAIN subset.data
  IN
  IF TrianglesRaise(lng_values, tess.triangles)
  THEN SelRaised(q, FALSE, <<>>, <<>>)
  ELSE
    LET valid_tri == lat_lng_find_tri_ind(lng, lat, lng_values, lat_values,
                                          tess.triangles)
    IN IF valid_tri = <<>>
       THEN SelReturn(q, <<>>, <<>>,
                      At0(subset.lon, 0), At0(subset.lat, 0),
                      SetNaN(PointFields(subset.data, names, 0), parameters))
       ELSE SelReturn(q, <<valid_tri[1]>>, <<>>,
                      At0(subset.lon, SelectedElement(valid_tri)),
                      At0(subset.lat, SelectedElement(valid_tri)),
                      PointFields(subset.data, names, SelectedElement(valid_tri)))

\* the dispatch on the subset's dimensions
TakesElementPathMutant(subset) == subset.dim # "nele"

TakesElementPath(subset) == subset.dim = "nele"

FVCOMGrid_sel_lat_lng(d, sub, lng, lat, parameters) ==
  LET subset == [sub EXCEPT !.data = mask(sub.data)]
  IN IF TakesElementPath(subset)
     THEN FVCOMGrid_sel_lat_lng_nele(d, subset, lng, lat, parameters)
     ELSE FVCOMGrid_sel_lat_lng_node(d, subset, lng, lat, parameters)

(***************************************************************************)
(* Vertical selection.  A data array handed to select_by_elevation is      *)
(* [vkind, vertical, data]: vkind is "cf" when the array carries a         *)
(* resolvable vertical coordinate (vertical[level][node]), "siglay" or     *)
(* "siglev" when it only has that dimension, "none" otherwise; data[level] *)
(* is its value at each level.  The dataset's sigma variables carry the    *)
(* attributes that make an attached sigma coordinate resolve as vertical.  *)
(* A request is <<>> for None, else <<list>>, each entry <<>> (None) or    *)
(* <<e>>.                                                                  *)
(***************************************************************************)
VKinds == {"none", "cf", "siglay", "siglev"}

ElevArray(d, vkind) ==
  LET vertical == IF vkind = "siglev" THEN d.siglev
                  ELSE IF vkind = "none" THEN <<>> ELSE d.siglay
  IN [vkind |-> vkind, vertical |-> vertical,
      data |-> [l \in DOMAIN vertical |-> 1000 + l]]

TriangularGrid_has_elevation(a) == a.vkind = "cf"

FVCOMGrid_has_elevation(a) == a.vkind \in {"cf", "siglay", "siglev"}

\* da.cf["vertical"][:, 0]
TriangularGrid_elevations(a) ==
  [l \in DOMAIN a.vertical |-> At0(a.vertical[l], 0)]

\* da.cf["vertical"][:, 0], or self.ds[vertical_var][:, 0]
FVCOMGrid_elevations(d, a) ==
  IF a.vkind = "cf" THEN [l \in DOMAIN a.vertical |-> At0(a.vertical[l], 0)]
  ELSE IF a.vkind = "siglay" THEN [l \in DOMAIN d.siglay |-> At0(d.siglay[l], 0)]
  ELSE [l \in DOMAIN d.siglev |-> At0(d.siglev[l], 0)]

\* elevations is None, empty or all None
DefaultsToZeroMutant(req) == req = <<>>

DefaultsToZero(req) ==
  \/ req = <<>>
  \/ Len(req[1]) = 0
  \/ \A i \in DOMAIN req[1] : req[1][i] = <<>>

\* the list of elevations the selection runs over
EffectiveElevations(req) == IF DefaultsToZero(req) THEN <<<<0>>>> ELSE req[1]

\* the distance minimised: np.absolute(da_elevations - elevation)
AbsDiffMutant(level, elevation) == level - elevation

AbsDiff(level, elevation) == Abs(level - elevation)

\* numpy argmin: 0-based position of the first minimum
argminMutant(s) ==
  (CHOOSE i \in DOMAIN s :
     /\ \A j \in DOMAIN s : s[i] <= s[j]
     /\ \A j \in DOMAIN s : s[j] = s[i] => j <= i) - 1

argmin(s) ==
  (CHOOSE i \in DOMAIN s :
     /\ \A j \in DOMAIN s : s[i] <= s[j]
     /\ \A j \in DOMAIN s : s[j] = s[i] => i <= j) - 1

\* len(elevation_index) == 1
CollapsesMutant(elevation_index) ==
  \A i, j \in DOMAIN elevation_index : elevation_index[i] = elevation_index[j]

Collapses(elevation_index) == Len(elevation_index) = 1

ElevUnchanged(a, req) ==
  [op |-> "select_by_elevation", vkind |-> a.vkind, raised |-> FALSE, request |-> req,
   has_elevation |-> FALSE, levels |-> <<>>, selected |-> FALSE,
   scalar |-> FALSE, index |-> <<>>, data |-> a.data]

ElevRaised(a, req) ==
  [op |-> "select_by_elevation", vkind |-> a.vkind, raised |-> TRUE, request |-> req,
   has_elevation |-> TRUE, levels |-> <<>>, selected |-> FALSE,
   scalar |-> FALSE, index |-> <<>>, data |-> <<>>]

\* the part shared by both grids once da_elevations is known
SelectLevels(a, req, da_elevations) ==
  LET elevations == EffectiveElevations(req)
  IN IF \E i \in DOMAIN elevations : elevations[i] = <<>>
     THEN ElevRaised(a, req)      \* da_elevations - None
     ELSE
       LET elevation_index ==
             [i \in DOMAIN elevations |->
                argmin([l \in DOMAIN da_elevations |->
                          AbsDiff(da_elevations[l], elevations[i][1])])]
       IN [op |-> "select_by_elevation", vkind |-> a.vkind, raised |-> FALSE, request |-> req,
           has_elevation |-> TRUE, levels |-> da_elevations, selected |-> TRUE,
           scalar |-> Collapses(elevation_index),
           index |-> elevation_index,
           data |-> [i \in DOMAIN elevation_index |->
                       At0(a.data, elevation_index[i])]]

TriangularGrid_select_by_elevation(a, req) ==
  IF ~TriangularGrid_has_elevation(a) THEN ElevUnchanged(a, req)
  ELSE SelectLevels(a, req, TriangularGrid_elevations(a))

FVCOMGrid_select_by_elevation(d, a, req) ==
  IF ~FVCOMGrid_has_elevation(a) THEN ElevUnchanged(a, req)
  ELSE SelectLevels(a, req, FVCOMGrid_elevations(d, a))

\* the requests the model draws from
ElevEntries == {<<>>} \cup {<<e>> : e \in (-MaxReq)..MaxReq}

ElevLists == UNION {[1..n -> ElevEntries] : n \in 0..MaxElevs}

ElevRequests == {<<>>} \cup {<<l>> : l \in ElevLists}

(***************************************************************************)
(* Bounding-box subsetting.  A data array in the render pipeline is        *)
(* [dim, idx]: idx lists, in order, the original 0-based node (or element) *)
(* index each of its positions holds, so its longitude at position p is    *)
(* the dataset's longitude of node idx[p].                                 *)
(***************************************************************************)
CRSs == {"EPSG:4326", "EPSG:3857"}

\* Web Mercator metres per degree at the equator; the model uses the same
\* linear scale on both axes
MercatorScale == 111319

\* to_lnglat_allow_over.transform on one coordinate
to_lnglat_allow_over(v) ==
  IF v >= 0 THEN v \div MercatorScale ELSE -((-v) \div MercatorScale)

FullArray(d, dim) ==
  [dim |-> dim,
   idx |-> IF dim = "nele" THEN [k \in 1..Len(d.element) |-> k - 1]
           ELSE [i \in 1..Len(d.lon) |-> i - 1]]

\* arr.isel(node = ind): positions ind of a sequence
ISel(s, ind) == [p \in DOMAIN ind |-> At0(s, ind[p])]

ISelRaises(s, ind) == \E p \in DOMAIN ind : ~InRange0(s, ind[p])

\* np.where(cond)[0]: the 0-based positions whose value lies in [lo, hi]
WhereBetween(s, lo, hi) == {p - 1 : p \in {q \in DOMAIN s : s[q] >= lo /\ s[q] <= hi}}

\* the rows of e selected by np.any(np.isin(e.flat, e_ind).reshape(e.shape), axis=1)
AnyAxis1(e, e_ind) == {r \in DOMAIN e : \E c \in DOMAIN e[r] : e[r][c] \in e_ind}

\* e[mask]: the selected rows, in order
TakeRows(e, rows) == [p \in 1..Cardinality(rows) |-> e[SortedSeq(rows)[p]]]

\* scipy rankdata(method="dense"): 1-based rank among the distinct values
rankdata(flat) ==
  [p \in DOMAIN flat |-> Cardinality({v \in Range(flat) : v <= flat[p]})]

\* norm_node_ind.reshape(e.shape)
Reshape(flat, nrows, ncols) ==
  [r \in 1..nrows |-> [c \in 1..ncols |-> flat[(r - 1) * ncols + c]]]

\* the record of one filter_by_bbox call
FilterCall(g, a, bbox, crs, raised, sel, kept, uniq, out) ==
  [grid |-> g, dim |-> a.dim, bbox |-> bbox, crs |-> crs, raised |-> raised,
   in_idx |-> a.idx, selected |-> sel, kept |-> kept,
   node_ind_unique |-> uniq, out_idx |-> out]

\* returns the call record, the data array and the render context
FVCOMGrid_filter_by_bbox(d, a, bbox0, crs, render_context) ==
  LET rc1 == [render_context EXCEPT !.masked = <<TRUE>>]
      bbox == IF crs = "EPSG:3857"
              THEN [i \in 1..4 |-> to_lnglat_allow_over(bbox0[i])]
              ELSE bbox0
      lng == IF a.dim = "nele" THEN d.lon ELSE ISel(d.lon, a.idx)
      lat == IF a.dim = "nele" THEN d.lat ELSE ISel(d.lat, a.idx)
  IN
  IF lng = <<>>     \* np.min of an empty array
  THEN [call |-> FilterCall("fvcom", a, bbox0, crs, TRUE, {}, <<>>, <<>>, <<>>),
        da |-> a, rc |-> rc1]
  ELSE
    LET adjust_lng == IF SeqMin(lng) < -180 THEN 360
                      ELSE IF SeqMax(lng) > 180 THEN -360 ELSE 0
        x == WhereBetween([p \in DOMAIN lng |-> lng[p] + adjust_lng],
                          bbox[1], bbox[3])
        y == WhereBetween(lat, bbox[2], bbox[4])
        e_ind == {p + 1 : p \in x \cap y}
        e == TakeRows(d.nv, AnyAxis1(d.nv, e_ind))
        node_ind_flat == Flatten(e)
        node_ind_unique == SortedSeq({v - 1 : v \in Range(node_ind_flat)})
        norm_node_ind == rankdata(node_ind_flat)
        ncols == Len(d.nv[1])
        rc2 == [rc1 EXCEPT !.nv = <<Array2(Reshape(norm_node_ind, Len(e), ncols),
                                           ncols)>>]
    IN IF a.dim = "nele" /\ ~HasAdjacency(d)
       THEN [call |-> FilterCall("fvcom", a, bbox0, crs, TRUE, x \cap y,
                                 Array2(e, ncols), node_ind_unique, <<>>),
             da |-> a, rc |-> rc2]      \* self.ds.ntve: AttributeError
       ELSE IF a.dim = "nele"
       THEN [call |-> FilterCall("fvcom", a, bbox0, crs, FALSE, x \cap y,
                                 Array2(e, ncols), node_ind_unique, a.idx),
             da |-> a,
             rc |-> [rc2 EXCEPT !.ntve = <<ISel(d.ntve, node_ind_unique)>>,
                                !.nbve = <<[s \in DOMAIN d.nbve |->
                                              ISel(d.nbve[s], node_ind_unique)]>>,
                                !.lng = <<ISel(d.lon, node_ind_unique)>>,
                                !.lat = <<ISel(d.lat, node_ind_unique)>>]]
       ELSE IF ISelRaises(a.idx, node_ind_unique)
       THEN [call |-> FilterCall("fvcom", a, bbox0, crs, TRUE, x \cap y,
                                 Array2(e, ncols), node_ind_unique, <<>>),
             da |-> a, rc |-> rc2]
       ELSE [call |-> FilterCall("fvcom", a, bbox0, crs, FALSE, x \cap y,
                                 Array2(e, ncols), node_ind_unique,
                                 ISel(a.idx, node_ind_unique)),
             da |-> [a EXCEPT !.idx = ISel(a.idx, node_ind_unique)],
             rc |-> rc2]

\* returns the data array it was given
TriangularGrid_filter_by_bbox(d, a, bbox, crs) ==
  [call |-> FilterCall("triangular", a, bbox, crs, FALSE, {}, <<>>, <<>>, a.idx),
   da |-> a]

(***************************************************************************)
(* Projection.  The values of a data array in the render pipeline are one  *)
(* cell per element (or per node of idx).  A 'tri_x' / 'tri_y' entry of a  *)
(* render context is [ref, values]: ref is "ds" when the entry is the      *)
(* dataset's own lon / lat array, "ctx" when it is the context's 'lng' /   *)
(* 'lat' array, and "own" when it is a new array holding values.           *)
(***************************************************************************)
\* Grid.mask on the cells of one data array
MaskCells(values) ==
  [i \in DOMAIN values |-> IF values[i] = Val(FillValue) THEN NaN ELSE values[i]]

\* to_mercator.transform on one coordinate array
to_mercator(coords) == [i \in DOMAIN coords |-> coords[i] * MercatorScale]

\* the single shift that brings a longitude array into [-180, 180]
AdjustLng(lon) ==
  IF SeqMin(lon) < -180 THEN 360 ELSE IF SeqMax(lon) > 180 THEN -360 ELSE 0

Shifted(lon, adjust_lng) == [i \in DOMAIN lon |-> lon[i] + adjust_lng]

\* da.cf["longitude"] / da.cf["latitude"] of a pipeline array
LonOf(d, a) == IF a.dim = "nele" THEN d.lonc ELSE ISel(d.lon, a.idx)
LatOf(d, a) == IF a.dim = "nele" THEN d.latc ELSE ISel(d.lat, a.idx)

ProjectRaised(crs) ==
  [op |-> "project", raised |-> TRUE, crs |-> crs, zonal |-> FALSE,
   input |-> <<>>, neighbors |-> <<>>, elem_count |-> <<>>,
   data |-> <<>>, x |-> <<>>, y |-> <<>>]

\* returns the result record, the render context and the dataset's
\* longitude array as the call leaves them
FVCOMGrid_project(d, a, values, crs, render_context) ==
  LET masked == render_context.masked # <<>> /\ render_context.masked[1]
      data0 == IF ~masked THEN MaskCells(values) ELSE values
      from_ctx == render_context.lng # <<>> /\ render_context.lat # <<>>
      ds_lon == IF from_ctx THEN render_context.lng[1] ELSE d.lon
      ds_lat == IF from_ctx THEN render_context.lat[1] ELSE d.lat
      zonal == a.dim = "nele" /\ HasAdjacency(d)
      elem_count == IF render_context.ntve # <<>> THEN render_context.ntve[1]
                    ELSE d.ntve
      neighbors == IF render_context.nbve # <<>> THEN render_context.nbve[1]
                   ELSE d.nbve
      data == IF zonal THEN NodeAverage(data0, neighbors, elem_count) ELSE data0
      x0 == IF zonal THEN ds_lon ELSE LonOf(d, a)
      y0 == IF zonal THEN ds_lat ELSE LatOf(d, a)
      has_tri == a.dim = "nele" /\ ~zonal
      ref == IF from_ctx THEN "ctx" ELSE "ds"
      result(x, y) ==
        [op |-> "project", raised |-> FALSE, crs |-> crs, zonal |-> zonal,
         input |-> data0,
         neighbors |-> IF zonal THEN neighbors ELSE <<>>,
         elem_count |-> IF zonal THEN elem_count ELSE <<>>,
         data |-> data, x |-> x, y |-> y]
      failed == [r |-> ProjectRaised(crs), rc |-> render_context, lon |-> d.lon]
  IN
  IF zonal /\ NodeAverageRaises(data0, neighbors) THEN failed
  ELSE IF Len(data) # Len(x0) THEN failed     \* data and coordinate sizes
  ELSE IF crs = "EPSG:4326"
  THEN
    IF x0 = <<>>       \* np.min of an empty array
    THEN failed
    ELSE
      LET adjust_lng == AdjustLng(x0)
          \* tri_x += adjust_lng works in place on ds_lon
          rc1 == IF has_tri /\ from_ctx
                 THEN [render_context EXCEPT !.lng = <<Shifted(ds_lon, adjust_lng)>>]
                 ELSE render_context
          rc2 == IF has_tri
                 THEN [rc1 EXCEPT !.tri_x = <<[ref |-> ref, values |-> <<>>]>>,
                                  !.tri_y = <<[ref |-> ref, values |-> <<>>]>>]
                 ELSE rc1
      IN [r |-> result(Shifted(x0, adjust_lng), y0), rc |-> rc2,
          lon |-> IF has_tri /\ ~from_ctx THEN Shifted(d.lon, adjust_lng)
                  ELSE d.lon]
  ELSE
    LET rc2 == IF has_tri
               THEN [render_context EXCEPT
                       !.tri_x = <<[ref |-> "own", values |-> to_mercator(ds_lon)]>>,
                       !.tri_y = <<[ref |-> "own", values |-> to_mercator(ds_lat)]>>]
               ELSE render_context
    IN [r |-> result(to_mercator(x0), to_mercator(y0)), rc |-> rc2, lon |-> d.lon]

\* returns new coordinate arrays; no render context
TriangularGrid_project(d, a, values, crs) ==
  LET lon == LonOf(d, a)
      lat == LatOf(d, a)
      out(x, y) ==
        [op |-> "project", raised |-> FALSE, crs |-> crs, zonal |-> FALSE,
         input |-> MaskCells(values), neighbors |-> <<>>, elem_count |-> <<>>,
         data |-> MaskCells(values), x |-> x, y |-> y]
  IN IF crs = "EPSG:4326"
     THEN IF lon = <<>> THEN ProjectRaised(crs)
          ELSE out(Shifted(lon, AdjustLng(lon)), lat)
     ELSE out(to_mercator(lon), to_mercator(lat))

\* the cells of the pipeline array a for one field at the first time step,
\* masked when a filter_by_bbox call has already masked the array
ValuesOf(d, a, name, is_masked) ==
  LET raw == IF a.dim = "nele" THEN d.nele_data[name][1]
             ELSE ISel(d.node_data[name][1], a.idx)
      cells == [i \in DOMAIN raw |-> Val(raw[i])]
  IN IF is_masked THEN MaskCells(cells) ELSE cells

(***************************************************************************)
(* The state machine.  grid and ds are fixed at construction.  ret is the  *)
(* result of the last sel_lat_lng or select_by_elevation call.  da, calls  *)
(* and ctx are the data array, the filter_by_bbox calls made and the       *)
(* render context of the query in progress; filter_default and             *)
(* project_default are the dicts that filter_by_bbox and project use when  *)
(* the caller passes no render_context (tessellate's is never written).    *)
(* held names the dict object the query's context is: "own" for a dict the *)
(* caller made, else the default dict a call returned.  A query runs the   *)
(* render stages in the order filter_by_bbox, project, tessellate and may  *)
(* skip any of them; project draws the field of the array it is given.     *)
(***************************************************************************)
QueryLngs == {-179, -1, 0, 1, 3, 10, 181, 359}
QueryLats == {0, 1, 10}

BBoxes ==
  { <<0, 0, 1, 1>>, <<0, 0, 3, 2>>, <<3, 2, 3, 2>>, <<5, 5, 6, 6>>,
    <<-180, 0, -179, 2>>,
    <<0, 0, MercatorScale, MercatorScale>>,
    <<0, 0, 3 * MercatorScale, 2 * MercatorScale>> }

BBoxCRS(bbox) == IF bbox[3] >= MercatorScale THEN "EPSG:3857" ELSE "EPSG:4326"

NoResult == [op |-> "none"]

Dims(g) == IF g = "fvcom" THEN {"node", "nele"} ELSE {"node"}

Init ==
  /\ grid \in Grids
  /\ ds \in Datasets
  /\ ret = NoResult
  /\ \E dim \in Dims(grid) : da = FullArray(ds, dim)
  /\ calls = <<>>
  /\ ctx = EmptyContext
  /\ filter_default = EmptyContext
  /\ project_default = EmptyContext
  /\ held = "own"

\* no call has been made in the query in progress
Idle == calls = <<>> /\ ret = NoResult

\* point queries and vertical selection read no render context; they are
\* explored on a grid whose render pipeline has not written one
Fresh ==
  /\ Idle
  /\ ctx = EmptyContext
  /\ filter_default = EmptyContext
  /\ project_default = EmptyContext

TriangularSelLatLng ==
  /\ grid = "triangular"
  /\ Fresh
  /\ \E lng \in QueryLngs, lat \in QueryLats, parameters \in SUBSET FieldNames :
        ret' = TriangularGrid_sel_lat_lng(ds, NodeSubset(ds), lng, lat, parameters)
  /\ UNCHANGED <<grid, ds, da, calls, ctx, filter_default, project_default, held>>

FVCOMSelLatLng ==
  /\ grid = "fvcom"
  /\ Fresh
  /\ \E lng \in QueryLngs, lat \in QueryLats, parameters \in SUBSET FieldNames,
        sub \in Subsets(ds) :
        ret' = FVCOMGrid_sel_lat_lng(ds, sub, lng, lat, parameters)
  /\ UNCHANGED <<grid, ds, da, calls, ctx, filter_default, project_default, held>>

TriangularSelectByElevation ==
  /\ grid = "triangular"
  /\ Fresh
  /\ \E vkind \in VKinds, req \in ElevRequests :
        ret' = TriangularGrid_select_by_elevation(ElevArray(ds, vkind), req)
  /\ UNCHANGED <<grid, ds, da, calls, ctx, filter_default, project_default, held>>

FVCOMSelectByElevation ==
  /\ grid = "fvcom"
  /\ Fresh
  /\ \E vkind \in VKinds, req \in ElevRequests :
        ret' = FVCOMGrid_select_by_elevation(ds, ElevArray(ds, vkind), req)
  /\ UNCHANGED <<grid, ds, da, calls, ctx, filter_default, project_default, held>>

\* a call may only follow one that returned
CanFilter ==
  /\ Len(calls) < MaxCalls
  /\ calls # <<>> => ~calls[Len(calls)].raised
  /\ ret.op \notin {"project", "tessellate"}

TriangularFilterByBbox ==
  /\ grid = "triangular"
  /\ CanFilter
  /\ \E bbox \in BBoxes :
        LET r == TriangularGrid_filter_by_bbox(ds, da, bbox, BBoxCRS(bbox))
        IN /\ da' = r.da
           /\ calls' = Append(calls, r.call)
  /\ ret' = NoResult
  /\ UNCHANGED <<grid, ds, ctx, filter_default, project_default, held>>

FVCOMFilterByBbox ==
  /\ grid = "fvcom"
  /\ CanFilter
  /\ \E bbox \in BBoxes, omitted \in BOOLEAN :
        LET r == FVCOMGrid_filter_by_bbox(ds, da, bbox, BBoxCRS(bbox),
                                          IF omitted THEN filter_default ELSE ctx)
        IN /\ da' = r.da
           /\ calls' = Append(calls, r.call)
           \* the caller's dict changes when it is the dict the call wrote
           \* to, or when the call returned its dict
           /\ ctx' = IF omitted /\ r.call.raised /\ held # "filter" THEN ctx
                      ELSE r.rc
           /\ filter_default' = IF omitted \/ held = "filter" THEN r.rc
                                 ELSE filter_default
           /\ project_default' = IF ~omitted /\ held = "project" THEN r.rc
                                  ELSE project_default
           /\ held' = IF omitted /\ ~r.call.raised THEN "filter" ELSE held
  /\ ret' = NoResult
  /\ UNCHANGED <<grid, ds>>

\* the render stages follow at most one filter_by_bbox call, and only one
\* that returned; a query that filters its result again ends there
Returned ==
  /\ Len(calls) <= 1
  /\ calls # <<>> => ~calls[Len(calls)].raised
  /\ ret.op \in {"project", "tessellate"} => ~ret.raised

\* TessellateDefault: the dict tessellate uses when no render_context is
\* passed; no stage that follows tessellate writes to it
TessellateDefault == EmptyContext

\* the arguments tessellate reads of the pipeline array
PipelineSubset(d, a) == [dim |-> a.dim, lon |-> LonOf(d, a), lat |-> LatOf(d, a)]

TessellateResult(t, dim, omitted) ==
  [op |-> "tessellate", raised |-> t.raised, triangles |-> t.triangles,
   dim |-> dim, omitted |-> omitted]

TriangularProject ==
  /\ grid = "triangular"
  /\ ret = NoResult
  /\ Returned
  /\ \E name \in FieldNames, crs \in CRSs :
        ret' = TriangularGrid_project(ds, da, ValuesOf(ds, da, name, FALSE), crs)
  /\ UNCHANGED <<grid, ds, da, calls, ctx, filter_default, project_default, held>>

FVCOMProject ==
  /\ grid = "fvcom"
  /\ ret = NoResult
  /\ Returned
  /\ \E name \in FieldNames, crs \in CRSs, omitted \in BOOLEAN :
        LET p == FVCOMGrid_project(ds, da, ValuesOf(ds, da, name, calls # <<>>), crs,
                                   IF omitted THEN project_default ELSE ctx)
        IN /\ SeqMin(p.lon) >= -360 * MaxTurns
           /\ SeqMax(p.lon) <= 360 * MaxTurns
           /\ ret' = p.r
           /\ ds' = [ds EXCEPT !.lon = p.lon]
           /\ ctx' = IF omitted /\ p.r.raised /\ held # "project" THEN ctx
                      ELSE p.rc
           /\ project_default' = IF omitted \/ held = "project" THEN p.rc
                                  ELSE project_default
           /\ filter_default' = IF ~omitted /\ held = "filter" THEN p.rc
                                 ELSE filter_default
           /\ held' = IF omitted /\ ~p.r.raised THEN "project" ELSE held
  /\ UNCHANGED <<grid, da, calls>>

TriangularTessellate ==
  /\ grid = "triangular"
  /\ ret.op \in {"none", "project"}
  /\ Returned
  /\ ret' = TessellateResult(TriangularGrid_tessellate(ds, PipelineSubset(ds, da)),
                              da.dim, FALSE)
  /\ UNCHANGED <<grid, ds, da, calls, ctx, filter_default, project_default, held>>

FVCOMTessellate ==
  /\ grid = "fvcom"
  /\ ret.op \in {"none", "project"}
  /\ Returned
  /\ \E omitted \in BOOLEAN :
        LET t == FVCOMGrid_tessellate(ds, PipelineSubset(ds, da),
                                      IF omitted THEN TessellateDefault ELSE ctx)
        IN /\ ret' = TessellateResult(t, da.dim, omitted)
           \* a call that raises returns no dict: the caller keeps its own
           /\ ctx' = IF omitted /\ ~t.raised THEN TessellateDefault ELSE ctx
           /\ held' = IF omitted /\ ~t.raised THEN "tessellate" ELSE held
  /\ UNCHANGED <<grid, ds, da, calls, filter_default, project_default>>

\* a direct call of sel_lat_lng_node: the subset is taken as it is
Unmasked(data) ==
  [name \in DOMAIN data |->
     [t \in DOMAIN data[name] |->
        [i \in DOMAIN data[name][t] |-> Val(data[name][t][i])]]]

FVCOMSelLatLngNode ==
  /\ grid = "fvcom"
  /\ Fresh
  /\ \E lng \in QueryLngs, lat \in QueryLats, parameters \in SUBSET FieldNames,
        sub \in Subsets(ds) :
        ret' = [FVCOMGrid_sel_lat_lng_node(
                  ds, [sub EXCEPT !.data = Unmasked(sub.data)], lng, lat, parameters)
                EXCEPT !.op = "sel_lat_lng_node"]
  /\ UNCHANGED <<grid, ds, da, calls, ctx, filter_default, project_default, held>>

\* the next request: a fresh data array and an empty render context
NewQuery ==
  /\ ~Idle
  /\ \E dim \in Dims(grid) : da' = FullArray(ds, dim)
  /\ calls' = <<>>
  /\ ctx' = EmptyContext
  /\ held' = "own"
  /\ ret' = NoResult
  /\ UNCHANGED <<grid, ds, filter_default, project_default>>

Next ==
  \/ TriangularSelLatLng
  \/ FVCOMSelLatLng
  \/ TriangularSelectByElevation
  \/ FVCOMSelectByElevation
  \/ TriangularFilterByBbox
  \/ FVCOMFilterByBbox
  \/ TriangularProject
  \/ FVCOMProject
  \/ TriangularTessellate
  \/ FVCOMTessellate
  \/ FVCOMSelLatLngNode
  \/ NewQuery

Spec == Init /\ [][Next]_vars

(***************************************************************************)
(* Properties of select-at-point.                                          *)
(***************************************************************************)
IsSel == ret.op = "sel_lat_lng"

\* 0-based indices of the mesh elements that contain the normalised query
\* point of the last sel_lat_lng call, computed from the dataset
Enclosing ==
  {k \in 0..(Len(ds.element) - 1) :
     InTriangle(ret.q.nlng, ret.q.qlat, ds.lon, ds.lat,
                [j \in 1..3 |-> At0(ds.element, k)[j] - 1])}

FirstEnclosing == CHOOSE k \in Enclosing : \A m \in Enclosing : k <= m

\* C1: whenever the point-in-triangle search finds no enclosing triangle,
\* the call returns normally and every requested field of the returned
\* single-point dataset is NaN at every index of its remaining (time)
\* dimension; this holds on the triangular grid and on both FVCOM paths.
C1_NoTriangleGivesNaN ==
  (IsSel /\ ret.searched /\ ~ret.found) =>
     /\ ~ret.raised
     /\ ret.q.parameters \subseteq DOMAIN ret.fields
     /\ \A name \in ret.q.parameters :
          /\ DOMAIN ret.fields[name] = 1..NTime
          /\ \A t \in 1..NTime : ret.fields[name][t] = NaN

C1_Witness ==
  /\ IsSel
  /\ ret.q.path = "nele"
  /\ ret.searched
  /\ ~ret.found
  /\ Enclosing = {}
  /\ ret.q.parameters = FieldNames
  /\ ~ret.raised
  /\ \A t \in 1..NTime : ret.fields["salt"][t] = NaN

\* C2: when an enclosing triangle is found on a node-located path, the three
\* indices used to read the vertex coordinates and the vertex values are the
\* 0-based indices of the three nodes of the located element, each within
\* [0, nodeCount), and the lookup does not raise.
C2_ReadsLocatedElementNodes ==
  (IsSel /\ ret.q.path \in {"triangular", "node"} /\ ret.found) =>
     /\ ~ret.raised
     /\ ret.read_idx = [j \in 1..3 |-> At0(ds.element, ret.located[1])[j] - 1]
     /\ \A j \in 1..3 : ret.read_idx[j] \in 0..(Len(ds.lon) - 1)

\* C3: every select-at-point call that returns, on any path and whether or
\* not a triangle was found, returns the query longitude and latitude as the
\* dataset's coordinates and as the 1-element x_axis / y_axis lists.
C3_ReturnsQueryCoordinates ==
  (IsSel /\ ~ret.raised) =>
     /\ ret.lon = <<ret.q.qlng>>
     /\ ret.lat = <<ret.q.qlat>>
     /\ ret.x_axis = <<ret.q.qlng>>
     /\ ret.y_axis = <<ret.q.qlat>>

\* C4: FVCOMGrid.sel_lat_lng takes the element path exactly when the subset
\* has the 'nele' dimension; on it, when an element k contains the point,
\* every requested field is the (masked) subset's own value at element k;
\* on the node path the value is the barycentric interpolation of the three
\* node values of the containing element.
C4_ElementPathReturnsElementValue ==
  (IsSel /\ grid = "fvcom") =>
     /\ ret.q.path = (IF ret.q.dim = "nele" THEN "nele" ELSE "node")
     /\ (ret.q.dim = "nele" /\ Enclosing # {}) =>
          /\ ~ret.raised
          /\ ret.located = <<FirstEnclosing>>
          /\ \A name \in ret.q.parameters : \A t \in 1..NTime :
               ret.fields[name][t] =
                 IF At0(ds.nele_data[name][t], FirstEnclosing) = FillValue THEN NaN
                 ELSE <<At0(ds.nele_data[name][t], FirstEnclosing), 1>>
     /\ (ret.q.dim = "node" /\ Enclosing # {}) =>
          /\ ~ret.raised
          /\ LET e == [j \in 1..3 |-> At0(ds.element, FirstEnclosing)[j] - 1]
                 w == barycentric_weights(
                        <<ret.q.nlng, ret.q.qlat>>,
                        <<At0(ds.lon, e[1]), At0(ds.lat, e[1])>>,
                        <<At0(ds.lon, e[2]), At0(ds.lat, e[2])>>,
                        <<At0(ds.lon, e[3]), At0(ds.lat, e[3])>>)
             IN \A name \in ret.q.parameters : \A t \in 1..NTime :
                  ret.fields[name][t] =
                    Norm(At0(ds.node_data[name][t], e[1]) * w[1]
                         + At0(ds.node_data[name][t], e[2]) * w[2]
                         + At0(ds.node_data[name][t], e[3]) * w[3], w[4])

C4_Witness ==
  /\ IsSel
  /\ grid = "fvcom"
  /\ ret.q.path = "nele"
  /\ Enclosing # {}
  /\ FirstEnclosing = 2
  /\ ret.q.parameters = FieldNames
  /\ ret.fields["temp"][1] = <<At0(ds.nele_data["temp"][1], 2), 1>>

(***************************************************************************)
(* Properties of select_by_elevation.                                      *)
(***************************************************************************)
IsElev == ret.op = "select_by_elevation"

\* the request is None, an empty list or a list of None only
NothingRequested ==
  \/ ret.request = <<>>
  \/ ret.request[1] = <<>>
  \/ \A i \in DOMAIN ret.request[1] : ret.request[1][i] = <<>>

\* the elevations the request stands for: [0.0] when nothing was requested
Requested == IF NothingRequested THEN <<<<0>>>> ELSE ret.request[1]

\* the vertical levels of the array of the last call, read from the dataset
LevelsOfCall ==
  LET sig == IF ret.vkind = "siglev" THEN ds.siglev ELSE ds.siglay
  IN [l \in DOMAIN sig |-> sig[l][1]]

\* C5: a call with elevations None, an empty list or a list of None only
\* returns what the call with [0.0] returns on the same array.
C5_NoElevationsSameAsZero ==
  (IsElev /\ NothingRequested) =>
     LET zero == <<<<<<0>>>>>>
         r0 == IF grid = "fvcom"
               THEN FVCOMGrid_select_by_elevation(ds, ElevArray(ds, ret.vkind), zero)
               ELSE TriangularGrid_select_by_elevation(ElevArray(ds, ret.vkind), zero)
     IN ret = [r0 EXCEPT !.request = ret.request]

C5_Witness ==
  /\ IsElev
  /\ ret.request = <<<<<<>>, <<>>>>>>
  /\ ret.selected
  /\ ret.scalar
  /\ ret.index = <<0>>

\* C6: the selection is a scalar index (the vertical dimension is dropped)
\* if and only if the request stands for exactly one elevation, a request
\* of nothing standing for [0.0]; two equal elevations [e, e] give a vector
\* of length 2 holding the same index twice.
C6_ScalarIffOneRequested ==
  (IsElev /\ ret.selected) =>
     /\ ret.scalar <=> (Len(Requested) = 1)
     /\ Len(ret.index) = Len(Requested)
     /\ Len(ret.data) = Len(Requested)
     /\ ( /\ Len(Requested) = 2
          /\ Requested[1] = Requested[2] ) =>
            /\ ~ret.scalar
            /\ ret.index[1] = ret.index[2]

C6_Witness ==
  /\ IsElev
  /\ ret.selected
  /\ ret.request = <<<<<<-2>>, <<-2>>>>>>
  /\ ~ret.scalar
  /\ Len(ret.index) = 2
  /\ ret.index[1] = ret.index[2]

\* C7: for each requested elevation e the selected index minimises
\* |elevations(field)[i] - e| over all vertical levels, and is the lowest
\* index among those that attain the minimum.
C7_NearestLevelLowestIndex ==
  (IsElev /\ ret.selected) =>
     /\ Len(ret.index) = Len(Requested)
     /\ \A i \in DOMAIN ret.index :
          LET L == LevelsOfCall
              e == Requested[i][1]
              k == ret.index[i] + 1
          IN /\ k \in DOMAIN L
             /\ \A l \in DOMAIN L :
                  /\ Abs(L[k] - e) <= Abs(L[l] - e)
                  /\ Abs(L[l] - e) = Abs(L[k] - e) => k <= l
             /\ ret.data[i] = ElevArray(ds, ret.vkind).data[k]

\* a tie between levels 1 and -1 for the request [0]
C7_Witness ==
  /\ IsElev
  /\ ret.selected
  /\ ret.vkind = "siglay"
  /\ ret.request = <<<<<<0>>>>>>
  /\ LevelsOfCall[1] = 1
  /\ LevelsOfCall[2] = -1
  /\ ret.index = <<0>>

(***************************************************************************)
(* Properties of filter_by_bbox.  They are stated against the dataset: the *)
(* nodes a bounding box selects and the elements that reference them.      *)
(***************************************************************************)
\* the bounding box of a call in degrees
BBoxDegrees(c) ==
  IF c.crs = "EPSG:3857" THEN [i \in 1..4 |-> to_lnglat_allow_over(c.bbox[i])]
  ELSE c.bbox

\* the single shift applied to the dataset's longitudes
DatasetShift ==
  IF SeqMin(ds.lon) < -180 THEN 360 ELSE IF SeqMax(ds.lon) > 180 THEN -360 ELSE 0

\* 0-based nodes of the mesh inside the bounding box of call c
NodesInBBox(c) ==
  LET b == BBoxDegrees(c)
  IN {n \in 0..(Len(ds.lon) - 1) :
        /\ At0(ds.lon, n) + DatasetShift >= b[1]
        /\ At0(ds.lon, n) + DatasetShift <= b[3]
        /\ At0(ds.lat, n) >= b[2]
        /\ At0(ds.lat, n) <= b[4]}

\* 0-based elements that reference at least one node inside the box
ElementsTouchingBBox(c) ==
  {k \in 0..(Len(ds.element) - 1) :
     \E j \in 1..3 : At0(ds.element, k)[j] - 1 \in NodesInBBox(c)}

\* 0-based nodes referenced by those elements
NodesOfTouchingElements(c) ==
  {At0(ds.element, k)[j] - 1 : k \in ElementsTouchingBBox(c), j \in 1..3}

\* the elements the call kept, each as the tuple of 1-based nodes the kept
\* connectivity holds for it, in order
KeptElements(c) ==
  IF c.kept.rows = <<>> THEN <<>>
  ELSE [k \in 1..c.kept.ncols |->
          [r \in 1..Len(c.kept.rows) |-> c.kept.rows[r][k]]]

\* the node set a call retained: for a node-resident array the nodes of the
\* returned data, for an element-resident one the reduced node subset
RetainedNodes(c) ==
  IF c.dim = "nele" THEN Range(c.node_ind_unique) ELSE Range(c.out_idx)

IsFirstFVCOMCall(i) ==
  /\ i = 1
  /\ i \in DOMAIN calls
  /\ calls[i].grid = "fvcom"

\* C8: filter_by_bbox selects the nodes whose shifted longitude and whose
\* latitude lie in the box, and keeps exactly the elements that reference
\* at least one selected node, each with its three nodes.
C8_KeepsElementsTouchingSelectedNodes ==
  \A i \in DOMAIN calls :
     IsFirstFVCOMCall(i) =>
        /\ ~calls[i].raised
        /\ calls[i].selected = NodesInBBox(calls[i])
        /\ KeptElements(calls[i]) =
             [p \in 1..Cardinality(ElementsTouchingBBox(calls[i])) |->
                At0(ds.element, SortedSeq(ElementsTouchingBBox(calls[i]))[p])]

\* C9: for a node-resident field, on either grid, the returned data holds
\* exactly the nodes referenced by the elements kept for the bounding box.
C9_NodeDataSlicedToRetainedNodes ==
  (calls # <<>> /\ calls[1].dim = "node") =>
     /\ ~calls[1].raised
     /\ Range(calls[1].out_idx) = NodesOfTouchingElements(calls[1])

\* b2 contains b1
BBoxContains(b2, b1) ==
  b2[1] <= b1[1] /\ b2[2] <= b1[2] /\ b2[3] >= b1[3] /\ b2[4] >= b1[4]

\* C10: filtering the field returned by a first call again, with the same or
\* a containing bounding box, returns the retained node set and the retained
\* element set of the first call.
C10_FilterIdempotent ==
  ( /\ Len(calls) = 2
    /\ calls[1].grid = "fvcom"
    /\ ~calls[1].raised
    /\ BBoxContains(BBoxDegrees(calls[2]), BBoxDegrees(calls[1])) ) =>
       /\ ~calls[2].raised
       /\ RetainedNodes(calls[2]) = RetainedNodes(calls[1])
       /\ Range(KeptElements(calls[2])) = Range(KeptElements(calls[1]))

(***************************************************************************)
(* Properties of the render pipeline and of the dataset's mesh.            *)
(***************************************************************************)
\* C11: the dataset's mesh is read-only: no call changes the node longitude
\* or latitude arrays, the connectivity or the adjacency arrays.
C11_MeshReadOnly ==
  [][ /\ ds'.lon = ds.lon
      /\ ds'.lat = ds.lat
      /\ ds'.element = ds.element
      /\ ds'.nv = ds.nv
      /\ ds'.ntve = ds.ntve
      /\ ds'.nbve = ds.nbve ]_vars

\* the entries only an element-resident query or project writes
ForeignToNodeQuery(rc) ==
  \/ rc.ntve # <<>>
  \/ rc.nbve # <<>>
  \/ rc.lng # <<>>
  \/ rc.lat # <<>>

\* C12: each query on an FVCOMGrid has its own render context: when a query
\* starts, every context its calls can be given or default to is empty, and
\* the context a node-resident query holds has none of the entries that
\* only a query on an element-resident field writes.
C12_ContextPerQuery ==
  grid = "fvcom" =>
     /\ Idle => /\ ctx = EmptyContext
                /\ filter_default = EmptyContext
                /\ project_default = EmptyContext
     /\ da.dim = "node" => ~ForeignToNodeQuery(ctx)

\* the last filter_by_bbox call of the query in progress
LastCall == calls[Len(calls)]

\* C13: tessellate on an element-resident field, given the context of the
\* filter_by_bbox call before it, returns one row of 3 indices per retained
\* element; with R the number of retained nodes every index is in [0, R),
\* every value of [0, R) occurs, and index r stands for the retained node
\* with the r-th smallest original index, so each row names the three mesh
\* nodes of its element.
C13_TessellateRemapsRetained ==
  ( /\ ret.op = "tessellate"
    /\ ~ret.omitted
    /\ ret.dim = "nele"
    /\ calls # <<>> ) =>
       LET E == SortedSeq(ElementsTouchingBBox(LastCall))
           N == SortedSeq(NodesOfTouchingElements(LastCall))
           T == ret.triangles
       IN /\ ~ret.raised
          /\ Len(T) = Len(E)
          /\ \A p \in DOMAIN T :
               /\ Len(T[p]) = 3
               /\ \A j \in 1..3 :
                    /\ T[p][j] \in 0..(Len(N) - 1)
                    /\ At0(N, T[p][j]) = At0(ds.element, E[p])[j] - 1
          /\ \A r \in 0..(Len(N) - 1) :
               \E p \in DOMAIN T : \E j \in DOMAIN T[p] : T[p][j] = r

RECURSIVE SumSet(_, _)
SumSet(S, f) ==
  IF S = {} THEN 0
  ELSE LET x == CHOOSE y \in S : TRUE IN f[x] + SumSet(S \ {x}, f)

\* the value the claim gives node position n: the element values at the
\* non-sentinel neighbour slots of n, summed and divided by the count of n
AverageAt(values, neighbors, elem_count, n) ==
  LET slots == {sl \in DOMAIN neighbors : neighbors[sl][n] > 0}
  IN IF \E sl \in slots : IsNaN(values[neighbors[sl][n]]) THEN NaN
     ELSE Norm(SumSet(slots, [sl \in slots |-> values[neighbors[sl][n]][1]]),
               elem_count[n])

\* fractions: product with an integer, sum, and the weighted sum
\* (v1 * w1 + v2 * w2 + v3 * w3) / w4 of three fractions
FracTimes(v, k) == IF IsNaN(v) THEN NaN ELSE Norm(v[1] * k, v[2])

FracPlus(a, b) ==
  IF IsNaN(a) \/ IsNaN(b) THEN NaN ELSE Norm(a[1] * b[2] + b[1] * a[2], a[2] * b[2])

WeightedSum(v, w) ==
  LET total == FracPlus(FracPlus(FracTimes(v[1], w[1]), FracTimes(v[2], w[2])),
                        FracTimes(v[3], w[3]))
  IN IF IsNaN(total) \/ w[4] = 0 THEN NaN ELSE Norm(total[1], total[2] * w[4])

\* the adjacency project is to use: the context's when present, else the
\* dataset's
AdjacencyInUse ==
  [neighbors |-> IF ctx.nbve # <<>> THEN ctx.nbve[1] ELSE ds.nbve,
   elem_count |-> IF ctx.ntve # <<>> THEN ctx.ntve[1] ELSE ds.ntve]

\* C14: when an element-resident field is reconciled onto nodes, by project
\* with adjacency available or by the averaging branch of sel_lat_lng_node,
\* the value of each node is the sum of the element values at its
\* non-sentinel neighbour slots divided by its element count; project uses
\* the render context's adjacency when present and the dataset's otherwise,
\* and sel_lat_lng_node interpolates the averaged node values.
C14_ElementValuesAveragedOntoNodes ==
  /\ (ret.op = "project" /\ grid = "fvcom" /\ ~ret.raised /\ da.dim = "nele"
        /\ HasAdjacency(ds)) =>
       /\ ret.zonal
       /\ ret.neighbors = AdjacencyInUse.neighbors
       /\ ret.elem_count = AdjacencyInUse.elem_count
       /\ \E name \in FieldNames :
            ret.input = [k \in DOMAIN ds.nele_data[name][1] |->
                           IF ds.nele_data[name][1][k] = FillValue THEN NaN
                           ELSE <<ds.nele_data[name][1][k], 1>>]
       /\ DOMAIN ret.data = DOMAIN AdjacencyInUse.elem_count
       /\ \A n \in DOMAIN ret.data :
            ret.data[n] = AverageAt(ret.input, AdjacencyInUse.neighbors,
                                    AdjacencyInUse.elem_count, n)
  /\ (ret.op = "sel_lat_lng_node" /\ ret.q.dim = "nele" /\ ~ret.raised
        /\ ret.found) =>
       LET i == ret.read_idx
           w == barycentric_weights(
                  <<ret.q.nlng, ret.q.qlat>>,
                  <<At0(ds.lon, i[1]), At0(ds.lat, i[1])>>,
                  <<At0(ds.lon, i[2]), At0(ds.lat, i[2])>>,
                  <<At0(ds.lon, i[3]), At0(ds.lat, i[3])>>)
       IN \A name \in ret.q.parameters : \A t \in 1..NTime :
            LET values == [k \in DOMAIN ds.nele_data[name][t] |->
                             <<ds.nele_data[name][t][k], 1>>]
                avg(n) == AverageAt(values, ds.nbve, ds.ntve, n + 1)
            IN ret.fields[name][t] =
                 WeightedSum(<<avg(i[1]), avg(i[2]), avg(i[3])>>, w)

\* project averaged onto a bbox-reduced node set that has a node with an
\* unused neighbour slot
C14_Witness ==
  /\ ret.op = "project"
  /\ ~ret.raised
  /\ ret.zonal
  /\ ctx.nbve # <<>>
  /\ Len(ret.data) > 0
  /\ Len(ret.data) < Len(ds.lon)
  /\ \E n \in DOMAIN ret.data :
       /\ \E sl \in DOMAIN ret.neighbors : ret.neighbors[sl][n] = 0
       /\ ~IsNaN(ret.data[n])
       /\ ret.data[n] = AverageAt(ret.input, ctx.nbve[1], ctx.ntve[1], n)

\* C15: on the node-located paths the longitude handed to the triangle
\* search is the query longitude plus 360 when it is negative and no
\* dataset longitude is negative, minus 360 when it is above 180 and the
\* dataset has a negative longitude, and the query longitude otherwise.
C15_NormalisesQueryLongitude ==
  ( /\ ret.op \in {"sel_lat_lng", "sel_lat_lng_node"}
    /\ ret.q.path \in {"triangular", "node"}
    /\ ret.searched ) =>
       ret.q.nlng =
         IF ret.q.qlng < 0 /\ SeqMin(ds.lon) >= 0 THEN ret.q.qlng + 360
         ELSE IF ret.q.qlng > 180 /\ SeqMin(ds.lon) < 0 THEN ret.q.qlng - 360
         ELSE ret.q.qlng

====
